---------------------------- MODULE Spec2Model ----------------------------
(***************************************************************************)
(* patchShebangs (src/main.rs): rewriting of script interpreter lines.     *)
(*                                                                         *)
(* Text is modelled byte by byte: a string is a sequence of one-character  *)
(* strings.  The token INVALID stands for a byte that is not valid UTF-8.  *)
(***************************************************************************)
EXTENDS Integers, Sequences, FiniteSets, TLC

VARIABLES
    disk,       \* the interpreters' filesystem: [regular, dirs], sets of absolute paths
    path_env,   \* main: the search path string (PATH or HOST_PATH)
    update,     \* main: the --update flag
    files,      \* the traversed entries, in traversal order: kind, mode, content, mtime
    files0,     \* the entries as they were when the program started
    clock,      \* the time a write would stamp on a file
    pc,         \* number of traversed entries the run is past
    status,     \* "run" | "ok" | "err": main's position / exit
    log,        \* the process_file calls of the run, in order: [entry, kind, err]
    last,       \* the latest process_file call: entry, file before, outcome
    calls,      \* number of process_file calls made directly on entry 1
    resolved    \* the latest direct which_in_path call: [program, result]

vars == <<disk, path_env, update, files, files0, clock, pc, status, log, last, calls, resolved>>

-----------------------------------------------------------------------------
(* Bytes and string primitives of the Rust standard library.               *)

INVALID == "<FF>"

\* char::is_whitespace, on the bytes the model uses
WS == {" ", "\t", "\n", "\r"}

\* str::starts_with
StartsWith(s, p) == Len(p) <= Len(s) /\ SubSeq(s, 1, Len(p)) = p

\* str::ends_with
EndsWith(s, p) == Len(p) <= Len(s) /\ SubSeq(s, Len(s) - Len(p) + 1, Len(s)) = p

\* str::contains(char)
Contains(s, c) == \E i \in 1..Len(s) : s[i] = c

RECURSIVE trim_end(_)
\* str::trim_end
trim_end(s) ==
    IF s # <<>> /\ s[Len(s)] \in WS THEN trim_end(SubSeq(s, 1, Len(s) - 1)) ELSE s

RECURSIVE trim_start(_)
\* str::trim_start
trim_start(s) == IF s # <<>> /\ s[1] \in WS THEN trim_start(Tail(s)) ELSE s

\* str::trim
trim(s) == trim_start(trim_end(s))

RECURSIVE trim_start_matches(_, _)
\* str::trim_start_matches: strips the prefix repeatedly
trim_start_matches(s, p) ==
    IF p # <<>> /\ StartsWith(s, p)
    THEN trim_start_matches(SubSeq(s, Len(p) + 1, Len(s)), p)
    ELSE s

RECURSIVE Split(_, _)
\* the pieces of s between separator bytes, empty pieces included
Split(s, seps) ==
    IF \A i \in 1..Len(s) : s[i] \notin seps
    THEN <<s>>
    ELSE LET i == CHOOSE k \in 1..Len(s) :
                      s[k] \in seps /\ \A j \in 1..(k - 1) : s[j] \notin seps
         IN  <<SubSeq(s, 1, i - 1)>> \o Split(SubSeq(s, i + 1, Len(s)), seps)

NonEmpty(s) == s # <<>>

\* str::split_whitespace: the non-empty pieces between whitespace
split_whitespace(s) == SelectSeq(Split(s, WS), NonEmpty)

RECURSIVE join(_, _)
\* [&str]::join
join(ss, sep) ==
    IF ss = <<>> THEN <<>>
    ELSE IF Len(ss) = 1 THEN ss[1]
    ELSE ss[1] \o sep \o join(Tail(ss), sep)

\* the first offset at which `from` occurs in s, 0 when it does not
FindFirst(s, from) ==
    LET hits == {i \in 1..(Len(s) - Len(from) + 1) : SubSeq(s, i, i + Len(from) - 1) = from}
    IN  IF hits = {} THEN 0 ELSE CHOOSE i \in hits : \A j \in hits : i <= j

FindLast(s, from) ==
    LET hits == {i \in 1..(Len(s) - Len(from) + 1) : SubSeq(s, i, i + Len(from) - 1) = from}
    IN  IF hits = {} THEN 0 ELSE CHOOSE i \in hits : \A j \in hits : i >= j

ReplaceAt(s, i, from, to) ==
    IF i = 0 THEN s
    ELSE SubSeq(s, 1, i - 1) \o to \o SubSeq(s, i + Len(from), Len(s))

\* a replacement that hits the last occurrence instead of the first
replacen_last(s, from, to) == ReplaceAt(s, FindLast(s, from), from, to)

\* str::replacen(from, to, 1)
replacen(s, from, to) == ReplaceAt(s, FindFirst(s, from), from, to)

-----------------------------------------------------------------------------
(* Paths.                                                                  *)

SLASH == <<"/">>

\* the process's working directory
cwd == <<"/", "w">>

\* Path::join (PathBuf::push): an absolute `p` replaces `dir`; a separator is
\* added only after a non-empty `dir` that does not end with one
PathJoin(dir, p) ==
    IF StartsWith(p, SLASH) THEN p
    ELSE IF dir = <<>> \/ EndsWith(dir, SLASH) THEN dir \o p
    ELSE dir \o SLASH \o p

\* Path::file_name: the final component when it is a normal one ("." pieces and
\* empty pieces are no components; a final ".." is not a name), else NoName
NoName == <<"<none>">>

NotDot(c) == c # <<".">>

file_name(p) ==
    LET keep == SelectSeq(SelectSeq(Split(p, {"/"}), NonEmpty), NotDot)
    IN  IF keep = <<>> \/ keep[Len(keep)] = <<".", ".">>
        THEN NoName
        ELSE keep[Len(keep)]

\* env::split_paths on Unix: every piece between colons, empty ones included
split_paths(s) == Split(s, {":"})

\* the absolute, normalised form the kernel looks a path up by: a relative
\* path starts at the working directory; empty and "." pieces drop out
Canon(p) ==
    LET abs  == IF StartsWith(p, SLASH) THEN p ELSE cwd \o SLASH \o p
        segs == SelectSeq(SelectSeq(Split(abs, {"/"}), NonEmpty), NotDot)
    IN  SLASH \o join(segs, SLASH)

\* Path::is_dir
IsDir(p) == p # <<>> /\ Canon(p) \in disk.dirs

\* Path::exists() && Path::is_file(): a regular file; a trailing separator
\* makes the lookup fail on a regular file
IsFile(p) == p # <<>> /\ ~EndsWith(p, SLASH) /\ Canon(p) \in disk.regular

-----------------------------------------------------------------------------
(* which_in_path (src/main.rs:130-139).                                    *)

NotFound == <<"<not found>">>

RECURSIVE ScanLast(_, _)
\* a scan in which a later matching entry wins
ScanLast(dirs, program) ==
    IF dirs = <<>> THEN NotFound
    ELSE LET rest == ScanLast(Tail(dirs), program)
         IN  IF rest # NotFound THEN rest
             ELSE IF IsFile(PathJoin(Head(dirs), program))
                  THEN PathJoin(Head(dirs), program) ELSE NotFound

RECURSIVE Scan(_, _)
\* the for loop over the entries: the first candidate that is a regular file
Scan(dirs, program) ==
    IF dirs = <<>> THEN NotFound
    ELSE LET full_path == PathJoin(Head(dirs), program)
         IN  IF IsFile(full_path) THEN full_path ELSE Scan(Tail(dirs), program)

which_in_path(program, penv) == Scan(split_paths(penv), program)

-----------------------------------------------------------------------------
(* process_file (src/main.rs:60-128).                                      *)

HASHBANG == <<"#", "!">>
SLASH_ENV == <<"/", "e", "n", "v">>
NIX_STORE == <<"/", "n", "i", "x", "/", "s", "t", "o", "r", "e">>
ENV == <<"e", "n", "v">>
DASH_S == <<"-", "S">>
SPACE == <<" ">>

\* BufRead::read_line into a String: the bytes up to and including the first
\* newline; fails (InvalidData) when they are not valid UTF-8
read_line(content) ==
    LET nl   == FindFirst(content, <<"\n">>)
        n    == IF nl = 0 THEN Len(content) ELSE nl
        line == SubSeq(content, 1, n)
    IN  IF Contains(line, INVALID)
        THEN [ok |-> FALSE, bytes_read |-> 0, line |-> <<>>]
        ELSE [ok |-> TRUE, bytes_read |-> n, line |-> line]

\* fs::read_to_string: fails when the file is not valid UTF-8
read_to_string(content) ==
    IF Contains(content, INVALID) THEN [ok |-> FALSE, text |-> <<>>]
    ELSE [ok |-> TRUE, text |-> content]

\* the outcome of building the new line: err is "" on success
Built(err, line, lookups) == [err |-> err, line |-> line, lookups |-> lookups]

\* the test that selects the env branch
takes_env_branch(interpreter) == EndsWith(interpreter, SLASH_ENV)

\* a test that misses the arguments holding "="
rejects_env_arg_dash_only(first_arg) == StartsWith(first_arg, <<"-">>)

\* the test that rejects an env argument
rejects_env_arg(first_arg) == StartsWith(first_arg, <<"-">>) \/ Contains(first_arg, "=")

\* format!("#!{}", prog_path)
env_plain_line(prog_path) == HASHBANG \o prog_path

\* format!("#!{} -S {} {}", env_path, prog_path, args.join(" "))
env_S_line(env_path, prog_path, args) ==
    HASHBANG \o env_path \o SPACE \o DASH_S \o SPACE \o prog_path \o SPACE \o join(args, SPACE)

\* the env branch
env_shebang(args, penv) ==
    IF args = <<>> THEN Built("invalid", <<>>, <<>>)
    ELSE LET first_arg == args[1] IN
         IF first_arg = DASH_S
         THEN LET args1 == Tail(args) IN
              IF args1 = <<>> THEN Built("invalid", <<>>, <<>>)
              ELSE LET prog      == args1[1]
                       args2     == Tail(args1)
                       prog_path == which_in_path(prog, penv)
                       env_path  == which_in_path(ENV, penv)
                   IN  IF prog_path = NotFound THEN Built("notfound", <<>>, <<prog>>)
                       ELSE IF env_path = NotFound
                            THEN Built("notfound", <<>>, <<prog, ENV>>)
                       ELSE Built("", env_S_line(env_path, prog_path, args2), <<prog, ENV>>)
         ELSE IF rejects_env_arg(first_arg) THEN Built("unsupported", <<>>, <<>>)
         ELSE LET prog_path == which_in_path(first_arg, penv)
              IN  IF prog_path = NotFound THEN Built("notfound", <<>>, <<first_arg>>)
                  ELSE Built("", env_plain_line(prog_path), <<first_arg>>)

\* the regular interpreter branch
regular_shebang(interpreter, args, penv) ==
    LET base     == IF file_name(interpreter) = NoName THEN interpreter
                    ELSE file_name(interpreter)
        resolved_path == which_in_path(base, penv)
        all_args == <<resolved_path>> \o args
    IN  IF resolved_path = NotFound THEN Built("notfound", <<>>, <<base>>)
        ELSE Built("", HASHBANG \o join(all_args, SPACE), <<base>>)

new_interpreter_line(interpreter, args, penv) ==
    IF takes_env_branch(interpreter)
    THEN env_shebang(args, penv)
    ELSE regular_shebang(interpreter, args, penv)

\* a guard that ignores the store prefix
should_write_any(original_shebang, new_line, interpreter, upd) ==
    original_shebang # new_line

\* the guard of the rewrite
should_write(original_shebang, new_line, interpreter, upd) ==
    original_shebang # new_line /\ (upd \/ ~StartsWith(interpreter, NIX_STORE))

\* fs::write stamps the file with the current time; set_file_mtime then puts
\* back the time captured before the write
write_back(f, updated, now) ==
    LET mtime   == f.mtime
        written == [f EXCEPT !.content = updated, !.mtime = now]
    IN  [written EXCEPT !.mtime = mtime]

\* what a call returns and leaves: kind is "none" (Ok(None)), "some"
\* (Ok(Some(line))) or "err" (err: "io", "notfound", "invalid", "unsupported");
\* file is the file after the call, lookups the names given to which_in_path in
\* order, computed the value of new_interpreter_line when one was built
Outcome(kind, err, line, f, lookups, computed) ==
    [kind |-> kind, err |-> err, line |-> line, file |-> f, lookups |-> lookups,
     computed |-> computed]

process_file(f, penv, upd, now) ==
    LET rl == read_line(f.content) IN
    IF ~rl.ok THEN Outcome("err", "io", <<>>, f, <<>>, <<>>)
    ELSE IF rl.bytes_read = 0 \/ ~StartsWith(rl.line, HASHBANG)
    THEN Outcome("none", "", <<>>, f, <<>>, <<>>)
    ELSE LET first_line       == rl.line
             original_shebang == trim_end(first_line)
             shebang_content  == trim(trim_start_matches(original_shebang, HASHBANG))
             parts            == split_whitespace(shebang_content)
             interpreter      == IF parts = <<>> THEN <<>> ELSE parts[1]
             args             == IF parts = <<>> THEN <<>> ELSE Tail(parts)
             built            == new_interpreter_line(interpreter, args, penv)
         IN  IF built.err # "" THEN Outcome("err", built.err, <<>>, f, built.lookups, <<>>)
             ELSE IF should_write(original_shebang, built.line, interpreter, upd)
             THEN LET content == read_to_string(f.content) IN
                  IF ~content.ok
                  THEN Outcome("err", "io", <<>>, f, built.lookups, built.line)
                  ELSE LET updated == replacen(content.text, original_shebang, built.line)
                       IN  Outcome("some", "", built.line,
                                   write_back(f, updated, now), built.lookups, built.line)
             ELSE Outcome("none", "", <<>>, f, built.lookups, built.line)

-----------------------------------------------------------------------------
(* Inputs.                                                                 *)

SH == <<"s", "h">>
PL == <<"p", "l">>
ASh == <<"/", "a", "/", "s", "h">>
BSh == <<"/", "b", "/", "s", "h">>
BEnv == <<"/", "b", "/", "e", "n", "v">>
WSh == <<"/", "w", "/", "s", "h">>
NixPSh == <<"/", "n", "i", "x", "/", "s", "t", "o", "r", "e", "/", "p", "/", "s", "h">>
DirRoot == <<"/">>
DirA == <<"/", "a">>
DirB == <<"/", "b">>
DirW == <<"/", "w">>
DirNix == <<"/", "n", "i", "x">>
DirNixP == <<"/", "n", "i", "x", "/", "s", "t", "o", "r", "e", "/", "p">>

SearchPaths ==
    { <<>>,   \* ""
      <<"/", "b">>,   \* "/b"
      <<"/", "a", ":", "/", "b">>,   \* "/a:/b"
      <<"/", "b", ":", "/", "a">>,   \* "/b:/a"
      <<":", "/", "b">>,   \* ":/b"
      <<"/", "a">>,   \* "/a"
      <<"/", "n", "i", "x", "/", "s", "t", "o", "r", "e", "/", "p", ":", "/", "b">>,   \* "/nix/store/p:/b"
      <<"/", "b", "/">>,   \* "/b/"
      <<".">> }   \* "."

Shebangs ==
    { <<"#", "!", "/", "x", "/", "e", "n", "v", " ", "s", "h">>,   \* "#!/x/env sh"
      <<"#", "!", "/", "x", "/", "e", "n", "v", " ", "-", "S", " ", "s", "h">>,   \* "#!/x/env -S sh"
      <<"#", "!", "/", "x", "/", "e", "n", "v", " ", "-", "S", " ", "s", "h", " ", "-", "e">>,   \* "#!/x/env -S sh -e"
      <<"#", "!", "/", "x", "/", "e", "n", "v", " ", "-", "S">>,   \* "#!/x/env -S"
      <<"#", "!", "/", "x", "/", "e", "n", "v">>,   \* "#!/x/env"
      <<"#", "!", "/", "x", "/", "e", "n", "v", " ", "-", "i", " ", "s", "h">>,   \* "#!/x/env -i sh"
      <<"#", "!", "/", "x", "/", "e", "n", "v", " ", "A", "=", "1", " ", "s", "h">>,   \* "#!/x/env A=1 sh"
      <<"#", "!", "e", "n", "v", " ", "s", "h">>,   \* "#!env sh"
      <<"#", "!", "/", "x", "/", "s", "h", " ", "-", "e">>,   \* "#!/x/sh -e"
      <<"#", "!", "/", "n", "i", "x", "/", "s", "t", "o", "r", "e", "/", "o", "/", "s", "h">>,   \* "#!/nix/store/o/sh"
      <<"#", "!", "/", "b", "/", "s", "h">>,   \* "#!/b/sh"
      <<"#", "!", " ", "/", "x", "/", "s", "h">>,   \* "#! /x/sh"
      <<"#", "!">>,   \* "#!"
      <<"#", "!", "/", "x", "/", "e", "n", "v", " ", "s", "h", " ", "-", "e">>,   \* "#!/x/env sh -e"
      <<"#", "!", "/", "x", "/", "p", "l">>,   \* "#!/x/pl"
      <<"#", "!", "/", "x", "/", "e", "n", "v", " ", "p", "l">> }   \* "#!/x/env pl"

Terminators ==
    { <<"\n">>,   \* "\n"
      <<" ", "\n">>,   \* " \n"
      <<"\r", "\n">> }   \* "\r\n"

Plain ==
    { <<>>,   \* ""
      <<"s", "h", "\n">>,   \* "sh\n"
      <<"#", "\n">>,   \* "#\n"
      <<" ", "#", "!", "/", "x", "/", "s", "h", "\n">>,   \* " #!/x/sh\n"
      <<"\n", "#", "!", "/", "x", "/", "s", "h", "\n">> }   \* "\n#!/x/sh\n"

\* the interpreters on disk: /a/sh a directory; /a/sh and /b/sh both files;
\* a file sh in the working directory; no sh in /a or /b
BaseDirs == {DirRoot, DirA, DirB, DirW, DirNix, NIX_STORE, DirNixP}

Worlds ==
    { [regular |-> {BSh, BEnv, NixPSh},       dirs |-> BaseDirs \cup {ASh}],
      [regular |-> {ASh, BSh, BEnv, NixPSh}, dirs |-> BaseDirs],
      [regular |-> {BSh, BEnv, WSh, NixPSh}, dirs |-> BaseDirs],
      [regular |-> {BEnv, NixPSh},             dirs |-> BaseDirs] }

Programs == {SH, ENV, PL, BSh, <<>>}

Lines == {h \o t : h \in Shebangs, t \in Terminators}

\* scripts: a first line alone, followed by itself again, by text, or by bytes
\* that are not text; a first line without terminator; files that are no scripts
Contents ==
    {l \o b : l \in Lines, b \in {<<>>, <<"x", "\n">>, <<INVALID, "\n">>}}
        \cup {l \o l : l \in Lines}
        \cup Shebangs
        \cup Plain
        \cup {<<INVALID, "\n">>, <<"#", "!", INVALID, "\n">>, <<"#", INVALID>>}

\* mode & bit # 0, for a one-bit mask
HasBit(mode, bit) == (mode \div bit) % 2 = 1

BaseTime == 5
MaxCalls == 2
NumEntries == 3

File(kind, mode, content, mtime) ==
    [kind |-> kind, mode |-> mode, content |-> content, mtime |-> mtime]

NoFile == File("none", 0, <<>>, 0)
NoCall ==
    [entry |-> 0, before |-> NoFile, prior |-> "idle",
     out |-> Outcome("idle", "", <<>>, NoFile, <<>>, <<>>)]
NoResolve == [program |-> <<>>, result |-> <<"<idle>">>]

-----------------------------------------------------------------------------
(* which_in_path called on its own.                                        *)

InitWhich ==
    /\ disk \in Worlds
    /\ path_env \in SearchPaths
    /\ update = FALSE
    /\ files = <<>>
    /\ files0 = <<>>
    /\ clock = BaseTime
    /\ pc = 0
    /\ status = "idle"
    /\ log = <<>>
    /\ last = NoCall
    /\ calls = 0
    /\ resolved = NoResolve

Which(program) ==
    /\ resolved' = [program |-> program, result |-> which_in_path(program, path_env)]
    /\ UNCHANGED <<disk, path_env, update, files, files0, clock, pc, status, log, last, calls>>

NextWhich == \E program \in Programs : Which(program)

SpecWhich == InitWhich /\ [][NextWhich]_vars

-----------------------------------------------------------------------------
(* process_file called on one file, repeatedly.                            *)

InitFile ==
    /\ disk \in Worlds
    /\ path_env \in SearchPaths
    /\ update \in BOOLEAN
    /\ \E c \in Contents : files = <<File("file", 493, c, BaseTime)>>
    /\ files0 = files
    /\ clock = BaseTime + 1
    /\ pc = 0
    /\ status = "idle"
    /\ log = <<>>
    /\ last = NoCall
    /\ calls = 0
    /\ resolved = NoResolve

\* one call process_file(path, path_env, update) on the file
ProcessFile ==
    /\ calls < MaxCalls
    /\ LET out == process_file(files[1], path_env, update, clock)
       IN  /\ files' = [files EXCEPT ![1] = out.file]
           /\ last' = [entry |-> 1, before |-> files[1], prior |-> last.out.kind, out |-> out]
    /\ calls' = calls + 1
    /\ clock' = clock + 1
    /\ UNCHANGED <<disk, path_env, update, files0, pc, status, log, resolved>>

NextFile == ProcessFile

SpecFile == InitFile /\ [][NextFile]_vars

-----------------------------------------------------------------------------
(* main and patch_shebangs_in_path (src/main.rs:15-58).  main walks the     *)
(* root arguments in order and returns at the first error of a walk, so    *)
(* the entries of all roots form one sequence, in the order WalkDir yields *)
(* them; pc counts the entries the two nested loops are past.              *)

\* the owner's execute bit, 0o100
S_IXUSR == 64

\* a test for an execute bit of any principal
is_executable_any(mode) == HasBit(mode, 1) \/ HasBit(mode, 8) \/ HasBit(mode, 64)

\* entry.metadata()?.permissions().mode() & 0o100 != 0
is_executable(mode) == HasBit(mode, S_IXUSR)

\* a loop that goes on after a failed file
after_call_ignoring(out) == "run"

\* the `?` on process_file's result: an error ends the run
after_call(out) == IF out.kind = "err" THEN "err" ELSE "run"

\* modes without the owner's execute bit: 0o644, 0o010, 0o001
ModesNoOwnerExec == {420, 8, 1}

\* a script the search path resolves, a file that is no script, a script
\* whose interpreter is in no directory of the search path, an env shebang
\* without program, a binary
Rewritable == <<"#", "!", "/", "x", "/", "e", "n", "v", " ", "s", "h", "\n">>

RunContents ==
    { Rewritable,
      <<"s", "h", "\n">>,
      <<"#", "!", "/", "x", "/", "p", "l", "\n">>,
      <<"#", "!", "/", "x", "/", "e", "n", "v", "\n">>,
      <<INVALID, "\n">> }

\* what WalkDir can yield: a directory, a symbolic link (not followed), an
\* error, a regular file (mode 0o755 with each content; a script under each
\* mode that lacks the owner's execute bit)
EntryChoices ==
    {File("dir", 493, <<>>, BaseTime), File("symlink", 511, <<>>, BaseTime),
     File("walkerr", 0, <<>>, BaseTime)}
        \cup {File("file", 493, c, BaseTime) : c \in RunContents}
        \cup {File("file", m, Rewritable, BaseTime) : m \in ModesNoOwnerExec}

InitRun ==
    /\ disk = [regular |-> {BSh, BEnv, NixPSh}, dirs |-> BaseDirs \cup {ASh}]
    /\ path_env = DirB
    /\ update \in BOOLEAN
    /\ files \in [1..NumEntries -> EntryChoices]
    /\ files0 = files
    /\ clock = BaseTime + 1
    /\ pc = 0
    /\ status = "run"
    /\ log = <<>>
    /\ last = NoCall
    /\ calls = 0
    /\ resolved = NoResolve

\* `let entry = entry?;` on an entry WalkDir could not read
WalkError ==
    /\ status = "run"
    /\ pc < NumEntries
    /\ files[pc + 1].kind = "walkerr"
    /\ status' = "err"
    /\ pc' = pc + 1
    /\ UNCHANGED <<disk, path_env, update, files, files0, clock, log, last, calls, resolved>>

\* `continue`: not a regular file, or not executable
Continue ==
    /\ status = "run"
    /\ pc < NumEntries
    /\ files[pc + 1].kind # "walkerr"
    /\ files[pc + 1].kind # "file" \/ ~is_executable(files[pc + 1].mode)
    /\ pc' = pc + 1
    /\ UNCHANGED <<disk, path_env, update, files, files0, clock, status, log, last, calls, resolved>>

\* process_file(file_path, path_env, update)? and the report of a new line
Process ==
    /\ status = "run"
    /\ pc < NumEntries
    /\ files[pc + 1].kind = "file"
    /\ is_executable(files[pc + 1].mode)
    /\ LET out == process_file(files[pc + 1], path_env, update, clock)
       IN  /\ files' = [files EXCEPT ![pc + 1] = out.file]
           /\ last' = [entry |-> pc + 1, before |-> files[pc + 1],
                       prior |-> last.out.kind, out |-> out]
           /\ log' = Append(log, [entry |-> pc + 1, kind |-> out.kind, err |-> out.err,
                                  line |-> out.line])
           /\ status' = after_call(out)
    /\ pc' = pc + 1
    /\ clock' = clock + 1
    /\ UNCHANGED <<disk, path_env, update, files0, calls, resolved>>

\* main returns Ok(()) after the last entry of the last root
Exit ==
    /\ status = "run"
    /\ pc = NumEntries
    /\ status' = "ok"
    /\ UNCHANGED <<disk, path_env, update, files, files0, clock, pc, log, last, calls, resolved>>

NextRun == WalkError \/ Continue \/ Process \/ Exit

SpecRun == InitRun /\ [][NextRun]_vars

-----------------------------------------------------------------------------
(* Claims about which_in_path, under SpecWhich.                            *)

Resolved == resolved # NoResolve

\* the candidate of the i-th search path entry for the resolved program
Candidate(i) == PathJoin(split_paths(path_env)[i], resolved.program)

NumDirs == Len(split_paths(path_env))

\* C5: which_in_path fails with not-found whenever no entry of the search path
\* yields an existing regular file, and always fails when the search path is
\* empty or holds only empty entries: a name is resolved only against a listed,
\* non-empty directory.  Stated for the bare file names the resolver is
\* specified for (a name with a separator is not looked up under the entries).
C5_EmptySearchPathFails ==
    (Resolved /\ ~Contains(resolved.program, "/")) =>
        /\ (\A i \in 1..NumDirs : ~IsFile(Candidate(i))) => resolved.result = NotFound
        /\ (\A i \in 1..NumDirs : split_paths(path_env)[i] = <<>>)
               => resolved.result = NotFound
        /\ resolved.result # NotFound
               => \E i \in 1..NumDirs :
                      /\ split_paths(path_env)[i] # <<>>
                      /\ StartsWith(resolved.result, split_paths(path_env)[i])

-----------------------------------------------------------------------------
(* Claims about process_file, under SpecFile.                              *)

Called == last.entry # 0

\* the bytes of the first line, terminator included
RawFirstLine(f) ==
    LET nl == FindFirst(f.content, <<"\n">>)
    IN  SubSeq(f.content, 1, IF nl = 0 THEN Len(f.content) ELSE nl)

\* the file is text and its first line starts with "#!"
IsScript(f) == ~Contains(RawFirstLine(f), INVALID) /\ StartsWith(RawFirstLine(f), HASHBANG)

\* the shebang as the file holds it, and its tokens
Orig(f)   == trim_end(RawFirstLine(f))
Tokens(f) == split_whitespace(trim(trim_start_matches(Orig(f), HASHBANG)))
Interp(f) == IF Tokens(f) = <<>> THEN <<>> ELSE Tokens(f)[1]
Args(f)   == IF Tokens(f) = <<>> THEN <<>> ELSE Tail(Tokens(f))

Success == {"none", "some"}

\* C1: when a call of process_file succeeds, a second call with the same search
\* path and flag on the otherwise unchanged filesystem returns None and leaves
\* the file unchanged.
C1_SecondCallIsNoOp ==
    (Called /\ last.prior \in Success) =>
        /\ last.out.kind = "none"
        /\ last.out.file = last.before

\* C2: on a readable file whose first line does not begin with "#!" (the empty
\* file and a first line of arbitrary bytes included) process_file returns
\* Ok(None), looks nothing up and leaves content and modification time as they
\* were.
C2_NonScriptUntouched ==
    (Called /\ ~StartsWith(RawFirstLine(last.before), HASHBANG)) =>
        /\ last.out.kind = "none"
        /\ last.out.lookups = <<>>
        /\ last.out.file = last.before
        /\ files[1] = last.before

\* C3: when process_file returns Some(new), the original shebang (the first
\* line without its trailing whitespace) at offset 0 is replaced by new, every
\* byte after it is as before, and the modification time is the one the file
\* had before the write.
C3_RewriteTouchesOnlyShebang ==
    (Called /\ last.out.kind = "some") =>
        LET orig == Orig(last.before)
            old  == last.before.content
        IN  /\ StartsWith(old, orig)
            /\ files[1].content = last.out.line \o SubSeq(old, Len(orig) + 1, Len(old))
            /\ files[1].mtime = last.before.mtime
            /\ files[1].kind = last.before.kind
            /\ files[1].mode = last.before.mode

\* a rewrite of a file that holds the shebang text a second time, further down
C3_Witness ==
    /\ Called
    /\ last.out.kind = "some"
    /\ FindLast(last.before.content, Orig(last.before)) > 1
    /\ last.before.mtime # clock - 1

PlainProgram(args) ==
    /\ args # <<>>
    /\ args[1] # DASH_S
    /\ args[1][1] # "-"
    /\ ~Contains(args[1], "=")

\* what C7 promises of a call on file f
EnvWrapperDropped ==
    /\ last.out.lookups = <<Args(last.before)[1]>>
    /\ which_in_path(Args(last.before)[1], path_env) # NotFound
           => /\ last.out.kind # "err" \/ last.out.err = "io"
              /\ last.out.computed = HASHBANG \o which_in_path(Args(last.before)[1], path_env)
              /\ last.out.kind = "some" => last.out.line = last.out.computed

\* C7 as stated: for every shebang whose interpreter's final path segment is env
\* (the bare token env included) and whose first argument is a plain program
\* name, that name alone is resolved and the new line is #!<resolved path>.
C7_EnvDroppedByFinalSegment ==
    (Called /\ IsScript(last.before)
            /\ file_name(Interp(last.before)) = ENV
            /\ PlainProgram(Args(last.before))) => EnvWrapperDropped

\* C7 for the tokens the code does send down the env branch: the same for
\* every shebang whose interpreter token ends with "/env".
C7_EnvDroppedBySuffix ==
    (Called /\ IsScript(last.before)
            /\ EndsWith(Interp(last.before), SLASH_ENV)
            /\ PlainProgram(Args(last.before))) => EnvWrapperDropped

\* #!/x/env sh [...] has been rewritten to #!/b/sh
C7_Witness ==
    /\ Called
    /\ IsScript(last.before)
    /\ EndsWith(Interp(last.before), SLASH_ENV)
    /\ PlainProgram(Args(last.before))
    /\ last.out.kind = "some"
    /\ last.out.line = HASHBANG \o BSh
    /\ StartsWith(files[1].content, HASHBANG \o BSh)

\* C8: on the env branch the call fails as invalid exactly when no program name
\* is present (no argument, or -S alone) and as unsupported exactly when the
\* first argument is not -S and starts with "-" or holds "="; both before any
\* lookup and any write.
C8_EnvRejections ==
    (Called /\ IsScript(last.before) /\ EndsWith(Interp(last.before), SLASH_ENV)) =>
        LET args == Args(last.before) IN
        /\ (last.out.err = "invalid") <=> (args = <<>> \/ args = <<DASH_S>>)
        /\ (last.out.err = "unsupported")
               <=> (/\ args # <<>>
                    /\ args[1] # DASH_S
                    /\ (args[1][1] = "-" \/ Contains(args[1], "=")))
        /\ last.out.err \in {"invalid", "unsupported"}
               => /\ last.out.kind = "err"
                  /\ last.out.lookups = <<>>
                  /\ files[1] = last.before

\* an unsupported env form is reported although its program is in no directory
\* of the search path
C8_Witness ==
    /\ Called
    /\ IsScript(last.before)
    /\ EndsWith(Interp(last.before), SLASH_ENV)
    /\ last.out.err = "unsupported"
    /\ Len(Args(last.before)) = 2
    /\ which_in_path(Args(last.before)[2], path_env) = NotFound

-----------------------------------------------------------------------------
(* Claims about the run, under SpecRun.                                    *)

\* the entries process_file was called on
Opened == {log[k].entry : k \in 1..Len(log)}

\* C9 as stated: process_file is invoked on every traversed entry that is a
\* regular file with an execute bit set for owner, group or other, and on no
\* other entry; the others are never modified.
C9_AnyExecBitProcessed ==
    \A i \in 1..NumEntries :
        /\ (i <= pc /\ files0[i].kind # "walkerr")
               => (i \in Opened <=> (files0[i].kind = "file"
                                      /\ is_executable_any(files0[i].mode)))
        /\ i \notin Opened => files[i] = files0[i]

\* C9 as amended: process_file is invoked on every traversed entry that is a
\* regular file with the owner's execute bit (0o100) set, and on no other
\* entry; the others are never modified.
C9_OwnerExecBitProcessed ==
    \A i \in 1..NumEntries :
        /\ (i <= pc /\ files0[i].kind # "walkerr")
               => (i \in Opened <=> (files0[i].kind = "file"
                                      /\ HasBit(files0[i].mode, 64)))
        /\ i \notin Opened => files[i] = files0[i]

\* the run has ended well, having rewritten a file and passed by a directory
\* and a script that only group or other may execute
C9_Witness ==
    /\ status = "ok"
    /\ \E i \in Opened : files[i] # files0[i]
    /\ \E i \in 1..NumEntries : files0[i].kind = "dir" /\ i \notin Opened
    /\ \E i \in 1..NumEntries :
           /\ files0[i].kind = "file"
           /\ files0[i].mode \in {1, 8}
           /\ StartsWith(files0[i].content, HASHBANG)
           /\ i \notin Opened

\* C10: files are processed one at a time in traversal order; the first error
\* ends the run: it is the last call made, no later entry is opened or
\* modified, no entry is processed twice, and the rewrites made before it stay.
C10_FailFast ==
    /\ \A k \in 1..Len(log) :
           /\ log[k].entry <= pc
           /\ k < Len(log) => /\ log[k].entry < log[k + 1].entry
                              /\ log[k].kind # "err"
           /\ log[k].kind = "err" => (status = "err" /\ pc = log[k].entry)
           /\ log[k].kind = "some"
                  => /\ StartsWith(files[log[k].entry].content, log[k].line)
                     /\ files[log[k].entry].content # files0[log[k].entry].content
    /\ \A j \in 1..NumEntries : j > pc => (j \notin Opened /\ files[j] = files0[j])
    /\ status = "err"
           => \/ files0[pc].kind = "walkerr"
              \/ (log # <<>> /\ log[Len(log)].entry = pc /\ log[Len(log)].kind = "err")
    /\ status = "ok" => pc = NumEntries /\ \A k \in 1..Len(log) : log[k].kind # "err"

\* a file was rewritten, the next executable file failed, and an executable
\* script after it was left unopened
C10_Witness ==
    /\ status = "err"
    /\ Len(log) >= 2
    /\ log[1].kind = "some"
    /\ log[Len(log)].err = "notfound"
    /\ pc < NumEntries
    /\ files0[pc + 1].kind = "file"
    /\ is_executable(files0[pc + 1].mode)
    /\ StartsWith(files0[pc + 1].content, HASHBANG)

=============================================================================
